---- MODULE Spec2Model ----
(***************************************************************************)
(* Model of src/bot.py: PokemonCenterMonitor, a single-threaded polling    *)
(* loop (run) around three calls: check_stock, add_to_cart and notify /    *)
(* send_sms.  Strings the code inspects (class tokens, button text) are    *)
(* sequences of one-character strings so that `in`, strip and lower are    *)
(* computed, not assumed.  src/bot.py carries change markers: the lines     *)
(* marked "-" are the earlier multi-signal heuristic that was removed; the *)
(* model follows the current lines (unmarked and "+").                     *)
(***************************************************************************)
EXTENDS Integers, Sequences, FiniteSets, TLC

\* ------------------------------------------------------------------ bounds
\* Number of loop iterations explored (check_count is unbounded in the code).
MaxChecks == 3
\* Number of <button> elements on a fetched product page.
MaxButtons == 2

\* ------------------------------------------------------- program constants
CHECK_INTERVAL == 90
COOLDOWN == 300
BOT_DELAY == 5
HTTP_OK == 200
HTTP_FORBIDDEN == 403

\* ------------------------------------------------------------ char strings
ADD_TO_CART_BUTTON == <<"a","d","d","-","t","o","-","c","a","r","t","-","b","u","t","t","o","n">>
UNAVAILABLE == <<"u","n","a","v","a","i","l","a","b","l","e">>
UpperAlpha == <<"A","B","C","D","E","F","G","H","I","J","K","L","M","N","O","P","Q","R","S","T","U","V","W","X","Y","Z">>
LowerAlpha == <<"a","b","c","d","e","f","g","h","i","j","k","l","m","n","o","p","q","r","s","t","u","v","w","x","y","z">>

\* Python `sub in s` on strings.
IsSubstr(sub, s) ==
    \E i \in 0..(Len(s) - Len(sub)) : SubSeq(s, i + 1, i + Len(sub)) = sub

\* Python str.lower(), character by character.
LowerChar(c) ==
    IF \E i \in 1..26 : UpperAlpha[i] = c
    THEN LowerAlpha[CHOOSE i \in 1..26 : UpperAlpha[i] = c]
    ELSE c

lower(s) == [i \in 1..Len(s) |-> LowerChar(s[i])]

\* Whitespace stripping done by get_text(strip=True) on the button's text.
RECURSIVE lstrip(_)
lstrip(s) == IF s /= <<>> /\ Head(s) = " " THEN lstrip(Tail(s)) ELSE s

RECURSIVE rstrip(_)
rstrip(s) ==
    IF s /= <<>> /\ s[Len(s)] = " " THEN rstrip(SubSeq(s, 1, Len(s) - 1)) ELSE s

get_text(btn) == rstrip(lstrip(btn.text))

\* ------------------------------------------------------------- input sets
\* class attribute of a <button>: absent, or a list of class tokens.
NoClass == [has_class |-> FALSE, tokens |-> <<>>]
CartButtonClass ==
    [has_class |-> TRUE, tokens |-> << <<"b","t","n">>, ADD_TO_CART_BUTTON >>]
OtherClass ==
    [has_class |-> TRUE, tokens |-> << <<"a","d","d","-","t","o","-","c","a","r","t">> >>]

TextAddToCart == <<"A","d","d"," ","t","o"," ","C","a","r","t">>
TextUnavailable == <<" ","U","n","a","v","a","i","l","a","b","l","e">>

\* The add-to-cart control in each combination of disabled attribute and text,
\* and other buttons that look enabled or disabled.
Buttons ==
    { [class |-> CartButtonClass, disabled |-> d, text |-> t] :
        d \in BOOLEAN, t \in {TextAddToCart, TextUnavailable} }
    \cup { [class |-> NoClass, disabled |-> FALSE, text |-> TextAddToCart],
           [class |-> OtherClass, disabled |-> FALSE, text |-> TextAddToCart],
           [class |-> OtherClass, disabled |-> TRUE, text |-> TextUnavailable] }

\* A parsed page: its <button> elements in document order.
Pages == UNION { [1..n -> Buttons] : n \in 0..MaxButtons }

Statuses == {HTTP_OK, HTTP_FORBIDDEN, 404, 500}

\* Outcome of session.get(PRODUCT_URL) followed by BeautifulSoup(...):
\* exc = "none" (a response), "timeout" (requests.exceptions.Timeout),
\* "error" (any other exception raised by the GET), "parse" (a 200 response
\* whose parsing raises).
NoFetch == [exc |-> "unset", status |-> 0, page |-> <<>>]

Fetches ==
    { [exc |-> "none", status |-> HTTP_OK, page |-> p] : p \in Pages }
    \cup { [exc |-> "none", status |-> s, page |-> <<>>] : s \in Statuses \ {HTTP_OK} }
    \cup { [exc |-> e, status |-> 0, page |-> <<>>] : e \in {"timeout", "error"} }
    \cup { [exc |-> "parse", status |-> HTTP_OK, page |-> <<>>] }

\* Outcome of one HTTP request made by add_to_cart.
NoReply == [exc |-> "unset", status |-> 0]

Replies ==
    { [exc |-> "none", status |-> s] : s \in Statuses }
    \cup { [exc |-> e, status |-> 0] : e \in {"timeout", "error"} }

\* Outcome of twilio_client.messages.create when it is called.
SmsOutcomes == {"sent", "error"}

\* ------------------------------------------------------------------ state
VARIABLES
    pc,            \* position of run(): "loop", "checked", "cart", "notify",
                   \* "cooldown", "sleep", or "crashed" (uncaught exception)
    check_count,   \* run's local counter
    item_added,    \* self.item_added
    twilio_client, \* self.twilio_client: "None" or "Client"
    stock_status,  \* run's local: "True", "False" or "None"
    response,      \* what the last check_stock fetched (held until run branches)
    check_pause,   \* time.sleep calls made inside the last check_stock
    sleeps,        \* time.sleep calls made by run in the current iteration
    cart_io,       \* replies given to the last add_to_cart call of this iteration
    cart_reqs,     \* requests issued by that call, in order
    cart_ret,      \* its return value: "True", "False", or "None" if not called
    sms_ret,       \* return value of send_sms in this iteration, "None" if not called
    sms_sends,     \* messages.create calls made in this iteration
    iter_cart,     \* add_to_cart calls made in this iteration
    iter_notify,   \* notify calls made in this iteration
    cart_calls,    \* add_to_cart calls since start
    cart_ok,       \* add_to_cart calls since start that returned True
    notify_calls,  \* notify calls since start
    in_stock_seen, \* check_stock calls since start that returned True
    sms_failed     \* some send_sms call since start returned False

vars == << pc, check_count, item_added, twilio_client, stock_status, response,
           check_pause, sleeps, cart_io, cart_reqs, cart_ret, sms_ret, sms_sends,
           iter_cart, iter_notify, cart_calls, cart_ok, notify_calls,
           in_stock_seen, sms_failed >>

\* ------------------------------------------------------------ check_stock
\* Lambda passed to soup.find: x and 'add-to-cart-button' in x, tried on each
\* class token (on None when the attribute is absent).
class_matches(c) ==
    c.has_class /\ \E k \in 1..Len(c.tokens) : IsSubstr(ADD_TO_CART_BUTTON, c.tokens[k])

\* soup.find('button', {...}): index of the first matching button, 0 if none.
RECURSIVE find_from(_, _)
find_from(page, i) ==
    IF i > Len(page) THEN 0
    ELSE IF class_matches(page[i].class) THEN i
    ELSE find_from(page, i + 1)

find(page) == find_from(page, 1)

is_disabled_attr_only(btn) == btn.disabled

is_disabled(btn) ==
    btn.disabled \/ IsSubstr(UNAVAILABLE, lower(get_text(btn)))

\* Body of the try block for a response that was fetched and parsed.
check_stock_pause_any_error(r) ==
    IF r.status /= HTTP_OK
    THEN [ret |-> "None", pause |-> <<BOT_DELAY>>]
    ELSE LET i == find(r.page) IN
         IF i /= 0
         THEN IF is_disabled(r.page[i])
              THEN [ret |-> "False", pause |-> <<>>]
              ELSE [ret |-> "True", pause |-> <<>>]
         ELSE [ret |-> "False", pause |-> <<>>]

check_stock_body(r) ==
    IF r.status = HTTP_FORBIDDEN
    THEN [ret |-> "None", pause |-> <<BOT_DELAY>>]
    ELSE IF r.status /= HTTP_OK
    THEN [ret |-> "None", pause |-> <<>>]
    ELSE LET i == find(r.page) IN
         IF i /= 0
         THEN IF is_disabled(r.page[i])
              THEN [ret |-> "False", pause |-> <<>>]
              ELSE [ret |-> "True", pause |-> <<>>]
         ELSE [ret |-> "False", pause |-> <<>>]

check_stock_timeout_only(r) ==
    IF r.exc = "none"
    THEN [ret |-> check_stock_body(r).ret, pause |-> check_stock_body(r).pause,
          raised |-> FALSE]
    ELSE IF r.exc = "timeout"
    THEN [ret |-> "None", pause |-> <<>>, raised |-> FALSE]
    ELSE [ret |-> "None", pause |-> <<>>, raised |-> TRUE]

\* check_stock with its two except clauses; raised = an exception escapes.
check_stock(r) ==
    IF r.exc = "none"
    THEN [ret |-> check_stock_body(r).ret, pause |-> check_stock_body(r).pause,
          raised |-> FALSE]
    ELSE IF r.exc = "timeout"
    THEN [ret |-> "None", pause |-> <<>>, raised |-> FALSE]
    ELSE [ret |-> "None", pause |-> <<>>, raised |-> FALSE]

\* ------------------------------------------------------------ add_to_cart
add_to_cart_ignore_post_status(g, p) ==
    IF g.exc /= "none"
    THEN [ret |-> FALSE, reqs |-> <<"GET">>, raised |-> FALSE]
    ELSE IF g.status /= HTTP_OK
    THEN [ret |-> FALSE, reqs |-> <<"GET">>, raised |-> FALSE]
    ELSE IF p.exc /= "none"
    THEN [ret |-> FALSE, reqs |-> <<"GET", "POST">>, raised |-> FALSE]
    ELSE [ret |-> TRUE, reqs |-> <<"GET", "POST">>, raised |-> FALSE]

\* g: outcome of the refresh GET; p: outcome of the cart POST if it is issued.
add_to_cart(g, p) ==
    IF g.exc /= "none"
    THEN [ret |-> FALSE, reqs |-> <<"GET">>, raised |-> FALSE]
    ELSE IF g.status /= HTTP_OK
    THEN [ret |-> FALSE, reqs |-> <<"GET">>, raised |-> FALSE]
    ELSE IF p.exc /= "none"
    THEN [ret |-> FALSE, reqs |-> <<"GET", "POST">>, raised |-> FALSE]
    ELSE IF p.status /= HTTP_OK
    THEN [ret |-> FALSE, reqs |-> <<"GET", "POST">>, raised |-> FALSE]
    ELSE [ret |-> TRUE, reqs |-> <<"GET", "POST">>, raised |-> FALSE]

\* --------------------------------------------------------------- send_sms
send_sms_no_except(client, o) ==
    IF client = "None"
    THEN [ret |-> FALSE, sends |-> 0, raised |-> FALSE]
    ELSE IF o = "sent"
    THEN [ret |-> TRUE, sends |-> 1, raised |-> FALSE]
    ELSE [ret |-> FALSE, sends |-> 1, raised |-> TRUE]

\* o: outcome of messages.create if it is called.
send_sms(client, o) ==
    IF client = "None"
    THEN [ret |-> FALSE, sends |-> 0, raised |-> FALSE]
    ELSE IF o = "sent"
    THEN [ret |-> TRUE, sends |-> 1, raised |-> FALSE]
    ELSE [ret |-> FALSE, sends |-> 1, raised |-> FALSE]

\* -------------------------------------------------------------------- run
AfterCheck_skip_notify_when_added(status, added) ==
    IF status = "True"
    THEN IF ~added THEN "cart" ELSE "cooldown"
    ELSE "sleep"

AfterCheck_act_when_out_of_stock(status, added) ==
    IF status = "True"
    THEN IF ~added THEN "cart" ELSE "notify"
    ELSE IF status = "False" THEN "cart" ELSE "sleep"

AfterCheck_ignore_item_added(status, added) ==
    IF status = "True" THEN "cart" ELSE "sleep"

\* Where run goes after check_stock returned: the if/elif/else on stock_status
\* and the item_added gate.
AfterCheck(status, added) ==
    IF status = "True"
    THEN IF ~added THEN "cart" ELSE "notify"
    ELSE "sleep"

Init ==
    /\ pc = "loop"
    /\ check_count = 0
    /\ item_added = FALSE
    /\ twilio_client \in {"None", "Client"}
    /\ stock_status = "None"
    /\ response = NoFetch
    /\ check_pause = <<>>
    /\ sleeps = <<>>
    /\ cart_io = [get |-> NoReply, post |-> NoReply]
    /\ cart_reqs = <<>>
    /\ cart_ret = "None"
    /\ sms_ret = "None"
    /\ sms_sends = 0
    /\ iter_cart = 0
    /\ iter_notify = 0
    /\ cart_calls = 0
    /\ cart_ok = 0
    /\ notify_calls = 0
    /\ in_stock_seen = 0
    /\ sms_failed = FALSE

\* Top of the while loop: check_count += 1; stock_status = self.check_stock().
CheckStock ==
    /\ pc = "loop"
    /\ check_count < MaxChecks
    /\ \E r \in Fetches :
         LET res == check_stock(r) IN
         /\ response' = r
         /\ stock_status' = res.ret
         /\ check_pause' = res.pause
         /\ in_stock_seen' = IF res.ret = "True" THEN in_stock_seen + 1 ELSE in_stock_seen
         /\ pc' = IF res.raised THEN "crashed" ELSE "checked"
    /\ check_count' = check_count + 1
    /\ sleeps' = <<>>
    /\ cart_io' = [get |-> NoReply, post |-> NoReply]
    /\ cart_reqs' = <<>>
    /\ cart_ret' = "None"
    /\ sms_ret' = "None"
    /\ sms_sends' = 0
    /\ iter_cart' = 0
    /\ iter_notify' = 0
    /\ UNCHANGED << item_added, twilio_client, cart_calls, cart_ok, notify_calls,
                    sms_failed >>

\* if stock_status is True / elif stock_status is False / else.
Branch ==
    /\ pc = "checked"
    /\ pc' = AfterCheck(stock_status, item_added)
    /\ response' = NoFetch
    /\ UNCHANGED << check_count, item_added, twilio_client, stock_status,
                    check_pause, sleeps, cart_io, cart_reqs, cart_ret, sms_ret,
                    sms_sends, iter_cart, iter_notify, cart_calls, cart_ok,
                    notify_calls, in_stock_seen, sms_failed >>

\* if self.add_to_cart(): self.item_added = True
AddToCart ==
    /\ pc = "cart"
    /\ \E g \in Replies :
       \E p \in (IF g.exc = "none" /\ g.status = HTTP_OK THEN Replies ELSE {NoReply}) :
         LET res == add_to_cart(g, p) IN
         /\ cart_io' = [get |-> g, post |-> p]
         /\ cart_reqs' = res.reqs
         /\ cart_ret' = IF res.ret THEN "True" ELSE "False"
         /\ item_added' = IF res.ret THEN TRUE ELSE item_added
         /\ cart_ok' = IF res.ret THEN cart_ok + 1 ELSE cart_ok
         /\ pc' = IF res.raised THEN "crashed" ELSE "notify"
    /\ iter_cart' = iter_cart + 1
    /\ cart_calls' = cart_calls + 1
    /\ UNCHANGED << check_count, twilio_client, stock_status, response,
                    check_pause, sleeps, sms_ret, sms_sends, iter_notify,
                    notify_calls, in_stock_seen, sms_failed >>

\* self.notify(): log, then self.send_sms(message), result discarded.
Notify ==
    /\ pc = "notify"
    /\ \E o \in (IF twilio_client = "None" THEN {"unset"} ELSE SmsOutcomes) :
         LET res == send_sms(twilio_client, o) IN
         /\ sms_ret' = IF res.ret THEN "True" ELSE "False"
         /\ sms_sends' = sms_sends + res.sends
         /\ sms_failed' = (sms_failed \/ ~res.ret)
         /\ pc' = IF res.raised THEN "crashed" ELSE "cooldown"
    /\ iter_notify' = iter_notify + 1
    /\ notify_calls' = notify_calls + 1
    /\ UNCHANGED << check_count, item_added, twilio_client, stock_status,
                    response, check_pause, sleeps, cart_io, cart_reqs, cart_ret,
                    iter_cart, cart_calls, cart_ok, in_stock_seen >>

\* time.sleep(300) at the end of the in-stock branch.
Cooldown ==
    /\ pc = "cooldown"
    /\ sleeps' = Append(sleeps, COOLDOWN)
    /\ pc' = "sleep"
    /\ UNCHANGED << check_count, item_added, twilio_client, stock_status,
                    response, check_pause, cart_io, cart_reqs, cart_ret, sms_ret,
                    sms_sends, iter_cart, iter_notify, cart_calls, cart_ok,
                    notify_calls, in_stock_seen, sms_failed >>

\* time.sleep(CHECK_INTERVAL) at the end of the loop body.
BaseSleep ==
    /\ pc = "sleep"
    /\ sleeps' = Append(sleeps, CHECK_INTERVAL)
    /\ pc' = "loop"
    /\ UNCHANGED << check_count, item_added, twilio_client, stock_status,
                    response, check_pause, cart_io, cart_reqs, cart_ret, sms_ret,
                    sms_sends, iter_cart, iter_notify, cart_calls, cart_ok,
                    notify_calls, in_stock_seen, sms_failed >>

Next ==
    \/ CheckStock
    \/ Branch
    \/ AddToCart
    \/ Notify
    \/ Cooldown
    \/ BaseSleep

Spec == Init /\ [][Next]_vars

\* One thread; every call returns (15 s request timeouts, finite sleeps), so a
\* step that can be taken is taken.
LiveSpec == Init /\ [][Next]_vars /\ WF_vars(Next)

\* ----------------------------------------------------------------- claims
ReplyOk(x) == x.exc = "none" /\ x.status = HTTP_OK

\* C1: add_to_cart is invoked at most once per process lifetime, whether the
\* first invocation reported success or failure.
C1_CartAttemptedAtMostOnce == cart_calls <= 1

\* C2: every iteration whose check returned InStock calls notify in that same
\* iteration, whatever the cart-add outcome (success, failure, skipped), so
\* after any number of completed iterations there are as many notify calls as
\* InStock results.
C2_NotifyEveryInStock ==
    /\ (stock_status = "True" /\ pc \in {"cooldown", "sleep", "loop"}) => iter_notify = 1
    /\ (pc = "loop") => notify_calls = in_stock_seen

\* Two consecutive InStock checks: the second skipped the cart-add, both notified.
C2_Witness ==
    /\ pc = "loop"
    /\ check_count = 2
    /\ in_stock_seen = 2
    /\ notify_calls = 2
    /\ item_added
    /\ iter_cart = 0

\* C3: for a 200 response fetched and parsed without exception, check_stock
\* returns InStock exactly when an add-to-cart button is present, it has no
\* disabled attribute and its text does not contain the "unavailable" marker;
\* otherwise it returns OutOfStock, never Unknown.
C3_StockDecision ==
    (response.exc = "none" /\ response.status = HTTP_OK) =>
        LET page == response.page
            matching == { i \in 1..Len(page) : class_matches(page[i].class) }
            first == CHOOSE i \in matching : \A j \in matching : i <= j
        IN  /\ pc = "checked"
            /\ IF /\ matching /= {}
                  /\ ~page[first].disabled
                  /\ ~IsSubstr(UNAVAILABLE, lower(page[first].text))
               THEN stock_status = "True"
               ELSE stock_status = "False"

\* A 200 page whose first button is not the add-to-cart control and whose
\* second is an enabled add-to-cart button: InStock.
C3_Witness ==
    /\ pc = "checked"
    /\ response.exc = "none"
    /\ response.status = HTTP_OK
    /\ Len(response.page) = 2
    /\ ~class_matches(response.page[1].class)
    /\ class_matches(response.page[2].class)
    /\ stock_status = "True"

\* C4: for a non-200 status, a timeout or any other exception, check_stock
\* returns Unknown; it pauses 5 seconds before returning exactly when the
\* status is 403.
C4_ErrorsAreUnknown ==
    (response.exc /= "unset") =>
        /\ pc = "checked"
        /\ (response.exc /= "none" \/ response.status /= HTTP_OK) => stock_status = "None"
        /\ IF response.exc = "none" /\ response.status = HTTP_FORBIDDEN
           THEN check_pause = <<BOT_DELAY>>
           ELSE check_pause = <<>>

\* A 403 response: Unknown after the 5-second pause.
C4_Witness ==
    /\ pc = "checked"
    /\ response.exc = "none"
    /\ response.status = HTTP_FORBIDDEN
    /\ stock_status = "None"
    /\ check_pause = <<BOT_DELAY>>

\* C5: whatever fails in the stock check, the cart-add and the SMS send, the
\* iteration completes and the next stock check is eventually started with the
\* check counter one higher (for every check below the explored MaxChecks).
C5_LoopNeverStops ==
    /\ \A n \in 1..MaxChecks :
         (pc = "checked" /\ check_count = n) ~> (pc = "loop" /\ check_count = n)
    /\ \A n \in 0..(MaxChecks - 1) :
         (pc = "loop" /\ check_count = n) ~> (pc = "checked" /\ check_count = n + 1)

\* A check that ended Unknown, started after an iteration in which both the
\* cart-add and the SMS send had failed.
C5_Witness ==
    /\ pc = "checked"
    /\ check_count >= 2
    /\ stock_status = "None"
    /\ response.exc \in {"timeout", "error", "parse"}
    /\ sms_failed
    /\ cart_calls > cart_ok

\* C6: an iteration whose check returned OutOfStock or Unknown makes no
\* add_to_cart call and no notify call (no cart request, no SMS send); cart-add
\* and notify only occur in InStock iterations.
C6_OnlyInStockActs ==
    /\ (stock_status /= "True") =>
          /\ pc \notin {"cart", "notify", "cooldown"}
          /\ iter_cart = 0
          /\ iter_notify = 0
          /\ cart_reqs = <<>>
          /\ sms_sends = 0
    /\ cart_calls <= in_stock_seen
    /\ notify_calls <= in_stock_seen

\* An OutOfStock iteration completed, after an earlier InStock one that notified.
C6_Witness ==
    /\ pc = "loop"
    /\ check_count = 2
    /\ stock_status = "False"
    /\ notify_calls = 1
    /\ iter_notify = 0

\* C7: a notification failure (no SMS client, or the send raising) does not
\* stop the loop and does not change the sleeps: every completed iteration has
\* slept what its check result alone determines, failed notification or not;
\* without an SMS client notify reports failure and attempts no send.
C7_SmsFailureHarmless ==
    /\ pc /= "crashed"
    /\ (pc = "loop" /\ check_count > 0) =>
          sleeps = (IF stock_status = "True"
                    THEN <<COOLDOWN, CHECK_INTERVAL>>
                    ELSE <<CHECK_INTERVAL>>)
    /\ (twilio_client = "None") => sms_sends = 0
    /\ (twilio_client = "None" /\ iter_notify > 0) => sms_ret = "False"

\* An iteration completed with a successful send after an earlier send failed.
C7_Witness ==
    /\ pc = "loop"
    /\ twilio_client = "Client"
    /\ sms_failed
    /\ sms_ret = "True"
    /\ sleeps = <<COOLDOWN, CHECK_INTERVAL>>

\* C8: an iteration sleeps either the 300-second cooldown (after InStock) or
\* CHECK_INTERVAL (otherwise), not both.
C8_OneSleepPerIteration ==
    (pc = "loop" /\ check_count > 0) =>
        sleeps = (IF stock_status = "True" THEN <<COOLDOWN>> ELSE <<CHECK_INTERVAL>>)

\* C9: add_to_cart issues the refresh GET first, at most one POST and none
\* when the GET is not a 200, and returns True exactly when both the GET and
\* the POST returned 200 without an exception; it never raises or retries.
C9_AddToCartContract ==
    (iter_cart > 0) =>
        /\ pc /= "crashed"
        /\ iter_cart = 1
        /\ cart_reqs \in {<<"GET">>, <<"GET", "POST">>}
        /\ (~ReplyOk(cart_io.get)) => cart_reqs = <<"GET">>
        /\ (cart_ret = "True") <=> (ReplyOk(cart_io.get) /\ ReplyOk(cart_io.post))
        /\ cart_ret \in {"True", "False"}

\* A call whose refresh GET succeeded and whose POST was answered 500: failure.
C9_Witness ==
    /\ iter_cart = 1
    /\ ReplyOk(cart_io.get)
    /\ cart_io.post.exc = "none"
    /\ cart_io.post.status = 500
    /\ cart_reqs = <<"GET", "POST">>
    /\ cart_ret = "False"

\* C10: item_added starts false, is true exactly when some add_to_cart call
\* has returned True, is never reset, and once it is true no further
\* add_to_cart call is made, so at most one call ever succeeds.
C10_ItemAddedFlag ==
    /\ ~item_added
    /\ [](item_added <=> cart_ok >= 1)
    /\ [](cart_ok <= 1)
    /\ [][item_added => (item_added' /\ cart_calls' = cart_calls)]_vars

\* A failed attempt, then a successful one, then a further InStock iteration
\* that reached notify without calling add_to_cart.
C10_Witness ==
    /\ item_added
    /\ in_stock_seen = 3
    /\ cart_calls = 2
    /\ cart_ok = 1
    /\ pc = "cooldown"
    /\ iter_cart = 0

====
